---- MODULE Spec2Model ----
(***************************************************************************)
(* Midnight Clock (src/main.py): the MidnightClock window's state and its  *)
(* handlers: pinned-timezone store, alarm registry, countdown timer,       *)
(* stopwatch, and the window / tray life cycle.                            *)
(*                                                                         *)
(* Everything runs on the one Qt event loop.  A handler is one action,     *)
(* except where it opens a modal QMessageBox: QMessageBox.information      *)
(* runs a nested event loop, so the handler is suspended there (a frame on *)
(* `modal`) while timers keep firing, and continues when the box is        *)
(* dismissed.                                                              *)
(***************************************************************************)
EXTENDS Integers, Sequences, FiniteSets, TLC

(***************************************************************************)
(* Bounds of the model.                                                    *)
(***************************************************************************)
\* values the user can give the countdown's QTimeEdit: 0..MaxHour etc.
MaxHour == 1
MaxMinute == 1
MaxSecond == 1
\* add_alarm is not taken beyond this many alarms
MaxAlarms == 2
\* update_stopwatch is not taken beyond this many ticks, record_lap beyond
\* this many laps since the last reset
MaxStopwatchTicks == 3
MaxLaps == 3
\* pin_timezone is not taken on a list already this long
MaxPinned == 4

\* wall-clock readings (hour, minute) and alarm times the model draws from:
\* two share the hour, two share the minute
ClockTimes ==
    { [hour |-> 7, minute |-> 29],
      [hour |-> 7, minute |-> 30],
      [hour |-> 8, minute |-> 30] }
\* texts typed into the alarm message field ("" is the empty field)
AlarmMessages == {"", "Tea"}
\* identifiers offered by the timezone list (a part of available_timezones())
Timezones == {"Europe/London", "America/New_York", "Asia/Tokyo", "Asia/Kolkata"}
\* pinned_timezones arrays a config file found at startup may hold
StartupLists ==
    { <<>>,
      <<"Asia/Tokyo">>,
      <<"Asia/Kolkata", "Europe/London">>,
      <<"Asia/Tokyo", "Europe/London", "Asia/Tokyo">> }

(***************************************************************************)
(* Text formatting, as Python's format specs and QTime.toString do it.     *)
(***************************************************************************)
Digit == <<"0", "1", "2", "3", "4", "5", "6", "7", "8", "9">>

RECURSIVE IntStr(_)
\* str(n) for n >= 0
IntStr(n) == IF n < 10 THEN Digit[n + 1] ELSE IntStr(n \div 10) \o Digit[(n % 10) + 1]

\* f"{n:02d}": at least two digits, wider when n > 99
Pad2(n) == IF n < 10 THEN "0" \o IntStr(n) ELSE IntStr(n)

\* f"{n:03d}"
\* mutant of Pad3: the milliseconds are padded like the seconds
Pad3AsPad2(n) == Pad2(n)

Pad3(n) == IF n < 10 THEN "00" \o IntStr(n)
           ELSE IF n < 100 THEN "0" \o IntStr(n) ELSE IntStr(n)

\* QTime(h, m, s)
QTime(h, m, s) == [hour |-> h, minute |-> m, second |-> s]

\* QTime.fromMSecsSinceStartOfDay(ms), for 0 <= ms < 86400000
fromMSecsSinceStartOfDay(ms) ==
    QTime(ms \div 3600000, (ms % 3600000) \div 60000, (ms % 60000) \div 1000)

\* time.toString("HH:mm:ss")
toString_HHmmss(time) ==
    Pad2(time.hour) \o ":" \o Pad2(time.minute) \o ":" \o Pad2(time.second)

\* time.toString("HH:mm")
toString_HHmm(time) == Pad2(time.hour) \o ":" \o Pad2(time.minute)

(***************************************************************************)
(* Python list operations used by the handlers.                            *)
(***************************************************************************)
\* x in list
In(x, list) == \E k \in 1..Len(list) : list[k] = x

\* mutant of ListRemove: del list[0]
ListRemoveHead(list, x) == Tail(list)

\* list.remove(x): drops the first occurrence of x (x is in list)
ListRemove(list, x) ==
    LET k == CHOOSE j \in 1..Len(list) :
                 list[j] = x /\ \A l \in 1..(j - 1) : list[l] # x
    IN  SubSeq(list, 1, k - 1) \o SubSeq(list, k + 1, Len(list))

(***************************************************************************)
(* The state.                                                              *)
(***************************************************************************)
VARIABLES
    \* window / tray / process
    is_quitting,            \* self.is_quitting
    window_visible,         \* the main window is shown
    tray_icon_visible,      \* self.tray_icon has been shown
    crashed,                \* an exception left a handler uncaught: the process is gone
    modal,                  \* open QMessageBox.information calls, innermost last
    \* pinned-timezone store
    config,                 \* self.config["pinned_timezones"]
    config_file,            \* midnight_clock_config.json on disk
    pinned_clocks,          \* rows of pinned_clocks_layout (their "timezone" property)
    \* alarm registry
    wall_clock,             \* what QTime.currentTime() returns now (hour, minute)
    alarms,                 \* self.alarms
    active_alarms_list,     \* items of self.active_alarms_list
    alarm_fired,            \* per alarm: how many times its "Alarm" box was raised
    \* countdown timer
    timer_total_seconds,    \* self.timer_total_seconds
    is_timer_running,       \* self.is_timer_running
    countdown_timer,        \* self.countdown_timer.isActive()
    timer_time_edit,        \* self.timer_time_edit: [time, enabled]
    timer_display,          \* self.timer_display.text()
    timer_start_button,     \* self.timer_start_button: [text, enabled]
    timer_pause_button,     \* self.timer_pause_button.isEnabled()
    \* stopwatch
    stopwatch_elapsed_ms,   \* self.stopwatch_elapsed_ms
    lap_count,              \* self.lap_count
    stopwatch_timer,        \* self.stopwatch_timer.isActive()
    stopwatch_display,      \* self.stopwatch_display.text()
    lap_list_widget,        \* items of self.lap_list_widget, index 0 first
    stopwatch_buttons,      \* [start, stop, lap]: isEnabled() of the three buttons
    \* history
    last,                   \* the handler call that produced this state
    run,                    \* the countdown's calls since the last configure or pause
    roundtrip               \* the last pin_timezone call and what followed it

lifecycle_vars == <<is_quitting, window_visible, tray_icon_visible>>
pinned_vars == <<config, config_file, pinned_clocks, roundtrip>>
alarm_vars == <<wall_clock, alarms, active_alarms_list, alarm_fired>>
countdown_vars ==
    <<timer_total_seconds, is_timer_running, countdown_timer, timer_time_edit,
      timer_display, timer_start_button, timer_pause_button, run>>
stopwatch_vars ==
    <<stopwatch_elapsed_ms, lap_count, stopwatch_timer, stopwatch_display,
      lap_list_widget, stopwatch_buttons>>
vars ==
    <<lifecycle_vars, crashed, modal, pinned_vars, alarm_vars, countdown_vars,
      stopwatch_vars, last>>


(***************************************************************************)
(* Who may act.                                                            *)
(***************************************************************************)
\* the process is running its event loop: nothing in main.py ever ends
\* app.exec() (setQuitOnLastWindowClosed(False), no call of quit()), so only
\* an uncaught exception in a slot, which PyQt6 turns into an abort, stops it
Alive == ~crashed

\* the main window's widgets take mouse and keyboard input: it is shown and
\* no application-modal message box is open
UserCanUse == Alive /\ window_visible /\ modal = <<>>

(***************************************************************************)
(* Configuration management.                                               *)
(***************************************************************************)
FileAbsent == [kind |-> "absent", pinned_timezones |-> <<>>]
\* not parseable as JSON (also what a write that failed half way leaves)
FileMalformed == [kind |-> "malformed", pinned_timezones |-> <<>>]
\* parseable JSON that holds no "pinned_timezones" array
FileOther == [kind |-> "other", pinned_timezones |-> <<>>]
\* {"pinned_timezones": [...]}
FileObject(list) == [kind |-> "object", pinned_timezones |-> list]

\* what may be on disk when the program starts
StartupFiles ==
    {FileAbsent, FileMalformed, FileOther} \cup {FileObject(l) : l \in StartupLists}

DefaultPinned == <<"Europe/London", "America/New_York", "Asia/Tokyo">>

\* mutant of load_config: only FileNotFoundError is caught
load_config_missing_only(file) ==
    IF file.kind = "absent"
    THEN FileObject(DefaultPinned)
    ELSE file

\* load_config: json.load(f), or the default on FileNotFoundError / JSONDecodeError
load_config(file) ==
    IF file.kind \in {"absent", "malformed"}
    THEN FileObject(DefaultPinned)
    ELSE file

\* mutant of save_config: the list is written as it stood before the change
save_config_before(list) == FileObject(config)

\* save_config when the write succeeds: json.dump(self.config, f, indent=4)
save_config(list) == FileObject(list)

\* save_config when open() or the write raises: open(..., 'w') either failed
\* (file untouched) or truncated the file before the write failed
save_config_failed(file) == {file, FileMalformed}

\* update_pinned_clocks_display: one row per entry of the list, in order
update_pinned_clocks_display(list) == list

\* mutant of PinAppend: insert at the front
PinPrepend(list, tz_name) == <<tz_name>> \o list

\* self.config["pinned_timezones"].append(tz_name)
PinAppend(list, tz_name) == Append(list, tz_name)

\* pin_timezone(item), item one of the timezone list's entries;
\* written says whether save_config succeeds
pin_timezone(tz_name, written) ==
    /\ UserCanUse
    /\ last' = [op |-> "pin_timezone", tz |-> tz_name]
    /\ roundtrip' = [stage |-> "pinned", tz |-> tz_name, before |-> config]
    /\ IF ~In(tz_name, config)
       THEN /\ Len(config) < MaxPinned
            /\ config' = PinAppend(config, tz_name)
            /\ IF written
               THEN /\ config_file' = save_config(config')
                    /\ pinned_clocks' = update_pinned_clocks_display(config')
                    /\ UNCHANGED crashed
               ELSE /\ config_file' \in save_config_failed(config_file)
                    /\ crashed' = TRUE
                    /\ UNCHANGED pinned_clocks
       ELSE /\ written    \* nothing is written: one step, not one per outcome
            /\ UNCHANGED <<config, config_file, pinned_clocks, crashed>>
    /\ UNCHANGED <<lifecycle_vars, modal, alarm_vars, countdown_vars, stopwatch_vars>>

\* unpin_timezone(tz_name), from the Unpin button of a displayed row
unpin_timezone(tz_name, written) ==
    /\ UserCanUse
    /\ In(tz_name, pinned_clocks)
    /\ last' = [op |-> "unpin_timezone", tz |-> tz_name]
    /\ roundtrip' =
           IF roundtrip.stage = "pinned" /\ roundtrip.tz = tz_name
           THEN [roundtrip EXCEPT !.stage = "unpinned"]
           ELSE [stage |-> "none", tz |-> "", before |-> <<>>]
    /\ IF In(tz_name, config)
       THEN /\ config' = ListRemove(config, tz_name)
            /\ IF written
               THEN /\ config_file' = save_config(config')
                    /\ pinned_clocks' = update_pinned_clocks_display(config')
                    /\ UNCHANGED crashed
               ELSE /\ config_file' \in save_config_failed(config_file)
                    /\ crashed' = TRUE
                    /\ UNCHANGED pinned_clocks
       ELSE /\ written
            /\ UNCHANGED <<config, config_file, pinned_clocks, crashed>>
    /\ UNCHANGED <<lifecycle_vars, modal, alarm_vars, countdown_vars, stopwatch_vars>>


(***************************************************************************)
(* Window, tray icon, quit.                                                *)
(***************************************************************************)
\* mutant of CloseAccepted: every close event is accepted
CloseAcceptedAlways == TRUE

\* the condition of closeEvent
CloseAccepted == is_quitting

\* closeEvent, from the window's close button
closeEvent ==
    /\ UserCanUse
    /\ last' = [op |-> "closeEvent"]
    /\ IF CloseAccepted
       THEN /\ window_visible' = FALSE                 \* event.accept()
            /\ UNCHANGED tray_icon_visible
       ELSE /\ window_visible' = FALSE                 \* event.ignore(); self.hide()
            /\ tray_icon_visible' = TRUE               \* self.tray_icon.show()
    /\ UNCHANGED <<is_quitting, crashed, modal, pinned_vars, alarm_vars,
                   countdown_vars, stopwatch_vars>>

\* what QSystemTrayIcon.activated may carry
ActivationReasons == {"Trigger", "Context"}

\* on_tray_icon_activated(reason)
on_tray_icon_activated(reason) ==
    /\ Alive
    /\ tray_icon_visible
    /\ last' = [op |-> "on_tray_icon_activated", reason |-> reason]
    /\ window_visible' = IF reason = "Trigger" THEN TRUE ELSE window_visible
    /\ UNCHANGED <<is_quitting, tray_icon_visible, crashed, modal, pinned_vars,
                   alarm_vars, countdown_vars, stopwatch_vars>>

\* force_quit, the tray menu's "Quit": the close event is accepted and the
\* window closes, but QApplication is told not to quit with its last window
\* and QApplication.quit() is never called
force_quit ==
    /\ Alive
    /\ tray_icon_visible
    /\ last' = [op |-> "force_quit"]
    /\ is_quitting' = TRUE
    /\ window_visible' = FALSE                         \* self.close(), accepted
    /\ UNCHANGED <<tray_icon_visible, crashed, modal, pinned_vars, alarm_vars,
                   countdown_vars, stopwatch_vars>>

(***************************************************************************)
(* Alarm registry.                                                         *)
(***************************************************************************)
\* a suspended QMessageBox.information call: which handler waits in it, and
\* for check_alarms its loop index and the current_time it read on entry
AlarmFrame(i, current_time) == [kind |-> "alarm", i |-> i, current_time |-> current_time]
TimerFrame == [kind |-> "timer", i |-> 0, current_time |-> [hour |-> 0, minute |-> 0]]

\* mutant of AlarmDue: the active flag is not consulted
AlarmDueIgnoringActive(alarm, current_time) ==
    /\ alarm.time.hour = current_time.hour
    /\ alarm.time.minute = current_time.minute

\* the condition of check_alarms' loop body
AlarmDue(alarm, current_time) ==
    /\ alarm.active
    /\ alarm.time.hour = current_time.hour
    /\ alarm.time.minute = current_time.minute

\* the first index >= from at which the loop's condition holds, 0 if none
FirstDue(list, current_time, from) ==
    LET due == {j \in from..Len(list) : AlarmDue(list[j], current_time)}
    IN  IF due = {} THEN 0 ELSE CHOOSE j \in due : \A k \in due : j <= k

\* message = self.alarm_message_edit.text() or "Alarm"
MessageOrDefault(text) == IF text = "" THEN "Alarm" ELSE text

\* add_alarm, with what the time and message fields hold
add_alarm(time, text) ==
    /\ UserCanUse
    /\ Len(alarms) < MaxAlarms
    /\ last' = [op |-> "add_alarm"]
    /\ alarms' = Append(alarms, [time |-> time, message |-> MessageOrDefault(text),
                                 active |-> TRUE])
    /\ active_alarms_list' =
           Append(active_alarms_list,
                  [label |-> toString_HHmm(time) \o " - " \o MessageOrDefault(text),
                   triggered |-> 0, gray |-> FALSE])
    /\ alarm_fired' = Append(alarm_fired, 0)
    /\ UNCHANGED <<wall_clock, lifecycle_vars, crashed, modal, pinned_vars,
                   countdown_vars, stopwatch_vars>>

\* check_alarms' loop from index `from` with the current_time read on entry,
\* up to the QMessageBox.information of the first due alarm (where the
\* handler suspends, on top of the open boxes `stack`) or to the list's end
check_alarms_from(from, current_time, stack) ==
    LET i == FirstDue(alarms, current_time, from)
    IN  IF i = 0
        THEN /\ modal' = stack
             /\ UNCHANGED <<alarms, alarm_fired, window_visible>>
        ELSE /\ alarms' = [alarms EXCEPT ![i].active = FALSE]
             /\ alarm_fired' = [alarm_fired EXCEPT ![i] = @ + 1]   \* play_sound, box
             /\ window_visible' = TRUE                             \* self.show()
             /\ modal' = Append(stack, AlarmFrame(i, current_time))

\* check_alarms, on alarm_check_timer's timeout (every second, from startup
\* on, whether or not the window is shown).  Whether the toolkit delivers the
\* timeout again while an earlier call is still inside its message box is
\* not decided by main.py: the model allows it, and allows it not to happen.
check_alarms ==
    /\ Alive
    /\ last' = [op |-> "check_alarms", hidden |-> ~window_visible,
                 current_time |-> wall_clock,
                fired |-> FirstDue(alarms, wall_clock, 1)]
    /\ check_alarms_from(1, wall_clock, modal)
    /\ UNCHANGED <<wall_clock, active_alarms_list, is_quitting, tray_icon_visible,
                   crashed, pinned_vars, countdown_vars, stopwatch_vars>>

\* mutant of MarkTriggered: the mark goes to the last row of the list
MarkTriggeredLastRow(items, i) ==
    [items EXCEPT ![Len(items)].triggered = @ + 1,
                  ![Len(items)].gray = TRUE]

\* item = self.active_alarms_list.item(i); setText(f"{item.text()} (Triggered)");
\* setForeground(gray)
MarkTriggered(items, i) ==
    [items EXCEPT ![i].triggered = @ + 1,
                  ![i].gray = TRUE]

\* the user closes the innermost message box.  A "Timer" box returns into
\* update_countdown, which ends; an "Alarm" box returns into check_alarms,
\* which marks row i and goes on with its loop.
dismiss_message_box ==
    /\ Alive
    /\ modal # <<>>
    /\ LET frame == modal[Len(modal)]
           rest == SubSeq(modal, 1, Len(modal) - 1)
       IN  IF frame.kind = "alarm"
           THEN /\ last' = [op |-> "check_alarms resumed", current_time |-> frame.current_time]
                /\ active_alarms_list' = MarkTriggered(active_alarms_list, frame.i)
                /\ check_alarms_from(frame.i + 1, frame.current_time, rest)
           ELSE /\ last' = [op |-> "update_countdown resumed"]
                /\ modal' = rest
                /\ UNCHANGED <<alarms, alarm_fired, active_alarms_list, window_visible>>
    /\ UNCHANGED <<wall_clock, is_quitting, tray_icon_visible, crashed, pinned_vars,
                   countdown_vars, stopwatch_vars>>

\* the wall clock moves to another minute: forward, or backward when the
\* system time is set back
wall_clock_moves ==
    /\ Alive
    /\ wall_clock' \in ClockTimes \ {wall_clock}
    /\ UNCHANGED <<alarms, active_alarms_list, alarm_fired, lifecycle_vars, crashed,
                   modal, pinned_vars, countdown_vars, stopwatch_vars, last>>


(***************************************************************************)
(* Countdown timer.                                                        *)
(***************************************************************************)
\* times the user can set in timer_time_edit
TimerTimes ==
    {QTime(h, m, s) : h \in 0..MaxHour, m \in 0..MaxMinute, s \in 0..MaxSecond}

\* mutant of TimerSeconds: the minutes are weighted like the hours
TimerSecondsWrongMinute(time) == time.hour * 3600 + time.minute * 3600 + time.second

\* time.hour() * 3600 + time.minute() * 60 + time.second()
TimerSeconds(time) == time.hour * 3600 + time.minute * 60 + time.second

NoRun == [phase |-> "none", time |-> QTime(0, 0, 0), ticks |-> 0, events |-> 0,
          remaining |-> 0]

\* mutant of sync_timer_display: the running flag is not consulted
sync_timer_display_always(time) ==
    /\ timer_total_seconds' = TimerSeconds(time)
    /\ timer_display' = toString_HHmmss(time)

\* mutant of sync_timer_display: is_timer_running is read as it stood before
\* the handler that calls it
sync_timer_display_stale(time) ==
    IF ~is_timer_running
    THEN /\ timer_total_seconds' = TimerSeconds(time)
         /\ timer_display' = toString_HHmmss(time)
    ELSE UNCHANGED <<timer_total_seconds, timer_display>>

\* sync_timer_display(time), as is_timer_running stands after this step
sync_timer_display(time) ==
    IF ~is_timer_running'
    THEN /\ timer_total_seconds' = TimerSeconds(time)
         /\ timer_display' = toString_HHmmss(time)
    ELSE UNCHANGED <<timer_total_seconds, timer_display>>

\* timer_time_edit.timeChanged -> sync_timer_display(time): the edit holds
\* the new time whatever the handler then does
timeChanged(time) ==
    /\ Alive
    /\ time # timer_time_edit.time
    /\ last' = [op |-> "sync_timer_display", time |-> time, running |-> is_timer_running]
    /\ timer_time_edit' = [timer_time_edit EXCEPT !.time = time]
    /\ UNCHANGED is_timer_running
    /\ sync_timer_display(time)
    /\ run' = IF is_timer_running THEN NoRun
              ELSE [phase |-> "configured", time |-> time, ticks |-> 0, events |-> 0,
                    remaining |-> 0]
    /\ UNCHANGED <<countdown_timer, timer_start_button, timer_pause_button,
                   lifecycle_vars, crashed, modal, pinned_vars, alarm_vars,
                   stopwatch_vars>>

\* mutant of StartAllowed: a countdown of zero seconds may start
StartAllowedAtZero == ~is_timer_running

\* the condition of start_timer
StartAllowed == timer_total_seconds > 0 /\ ~is_timer_running

\* start_timer
start_timer ==
    /\ Alive
    /\ last' = [op |-> "start_timer", started |-> StartAllowed]
    /\ IF StartAllowed
       THEN /\ is_timer_running' = TRUE
            /\ countdown_timer' = TRUE                             \* start(1000)
            /\ timer_start_button' = [timer_start_button EXCEPT !.enabled = FALSE]
            /\ timer_pause_button' = TRUE
            /\ timer_time_edit' = [timer_time_edit EXCEPT !.enabled = FALSE]
       ELSE UNCHANGED <<is_timer_running, countdown_timer, timer_start_button,
                        timer_pause_button, timer_time_edit>>
    /\ run' = IF run.phase = "configured" THEN [run EXCEPT !.phase = "started"]
              ELSE IF run.phase = "paused" THEN [run EXCEPT !.phase = "resumed"]
              ELSE NoRun
    /\ UNCHANGED <<timer_total_seconds, timer_display, lifecycle_vars, crashed, modal,
                   pinned_vars, alarm_vars, stopwatch_vars>>

\* pause_timer
pause_timer ==
    /\ Alive
    /\ last' = [op |-> "pause_timer", paused |-> is_timer_running]
    /\ IF is_timer_running
       THEN /\ is_timer_running' = FALSE
            /\ countdown_timer' = FALSE                            \* stop()
            /\ timer_start_button' = [text |-> "Resume", enabled |-> TRUE]
            /\ timer_pause_button' = FALSE
       ELSE UNCHANGED <<is_timer_running, countdown_timer, timer_start_button,
                        timer_pause_button>>
    /\ run' = IF is_timer_running
              THEN [NoRun EXCEPT !.phase = "paused", !.remaining = timer_total_seconds]
              ELSE IF run.phase = "paused" THEN run
              ELSE NoRun
    /\ UNCHANGED <<timer_total_seconds, timer_display, timer_time_edit, lifecycle_vars,
                   crashed, modal, pinned_vars, alarm_vars, stopwatch_vars>>

\* reset_timer
reset_timer ==
    /\ Alive
    /\ last' = [op |-> "reset_timer", running |-> is_timer_running,
                 seconds |-> timer_total_seconds]
    /\ is_timer_running' = FALSE
    /\ countdown_timer' = FALSE
    /\ sync_timer_display(timer_time_edit.time)
    /\ timer_start_button' = [text |-> "Start", enabled |-> TRUE]
    /\ timer_pause_button' = FALSE
    /\ timer_time_edit' = [timer_time_edit EXCEPT !.enabled = TRUE]
    /\ run' = NoRun
    /\ UNCHANGED <<lifecycle_vars, crashed, modal, pinned_vars, alarm_vars,
                   stopwatch_vars>>

\* mutant of CountdownDone: the end is noticed one second late
CountdownDoneBelowZero(seconds) == seconds < 0

\* the condition that ends the countdown in update_countdown
CountdownDone(seconds) == seconds = 0

\* mutant of TickAllowed: the running flag is not consulted
TickAllowedWhilePaused == timer_total_seconds > 0

\* the condition of update_countdown
TickAllowed == is_timer_running /\ timer_total_seconds > 0

\* the history after a tick that does not belong to a started run: a pause
\* remembers that a tick arrived during it
TickedWhilePaused ==
    IF run.phase = "paused"
    THEN [run EXCEPT !.ticks = IF @ = 0 THEN 1 ELSE @]
    ELSE NoRun

\* update_countdown
update_countdown ==
    /\ Alive
    /\ last' = [op |-> "update_countdown", hidden |-> ~window_visible,
                 running |-> is_timer_running]
    /\ IF TickAllowed
       THEN /\ timer_total_seconds' = timer_total_seconds - 1
            /\ timer_display' =
                   toString_HHmmss(fromMSecsSinceStartOfDay(timer_total_seconds' * 1000))
            /\ IF CountdownDone(timer_total_seconds')
               THEN /\ countdown_timer' = FALSE
                    /\ is_timer_running' = FALSE
                    /\ window_visible' = TRUE                      \* play_sound; show()
                    /\ modal' = Append(modal, TimerFrame)          \* "Time's up!"
               ELSE UNCHANGED <<countdown_timer, is_timer_running, window_visible, modal>>
            /\ run' = IF run.phase = "started"
                      THEN [run EXCEPT !.ticks = @ + 1,
                                       !.events = @ + (IF Len(modal') > Len(modal)
                                                       THEN 1 ELSE 0)]
                      ELSE TickedWhilePaused
       ELSE /\ run' = TickedWhilePaused
            /\ UNCHANGED <<timer_total_seconds, timer_display, countdown_timer,
                           is_timer_running, window_visible, modal>>
    /\ UNCHANGED <<timer_time_edit, timer_start_button, timer_pause_button, is_quitting,
                   tray_icon_visible, crashed, pinned_vars, alarm_vars, stopwatch_vars>>


(***************************************************************************)
(* Stopwatch.                                                              *)
(***************************************************************************)
\* update_stopwatch adds this many milliseconds
StopwatchTickMs == 10

\* update_stopwatch_display: f"{minutes:02d}:{seconds:02d}.{milliseconds:03d}"
update_stopwatch_display(elapsed_ms) ==
    LET minutes == elapsed_ms \div 60000
        seconds == (elapsed_ms % 60000) \div 1000
        milliseconds == elapsed_ms % 1000
    IN  Pad2(minutes) \o ":" \o Pad2(seconds) \o "." \o Pad3(milliseconds)

\* start_stopwatch
start_stopwatch ==
    /\ Alive
    /\ last' = [op |-> "start_stopwatch"]
    /\ stopwatch_timer' = TRUE
    /\ stopwatch_buttons' = [start |-> FALSE, stop |-> TRUE, lap |-> TRUE]
    /\ UNCHANGED <<stopwatch_elapsed_ms, lap_count, stopwatch_display, lap_list_widget,
                   lifecycle_vars, crashed, modal, pinned_vars, alarm_vars,
                   countdown_vars>>

\* mutant of StoppedButtons: the lap button is left enabled
StoppedButtonsLapLeft == [start |-> TRUE, stop |-> FALSE, lap |-> TRUE]

\* the three setEnabled calls of stop_stopwatch
StoppedButtons == [start |-> TRUE, stop |-> FALSE, lap |-> FALSE]

\* stop_stopwatch
stop_stopwatch ==
    /\ Alive
    /\ last' = [op |-> "stop_stopwatch"]
    /\ stopwatch_timer' = FALSE
    /\ stopwatch_buttons' = StoppedButtons
    /\ UNCHANGED <<stopwatch_elapsed_ms, lap_count, stopwatch_display, lap_list_widget,
                   lifecycle_vars, crashed, modal, pinned_vars, alarm_vars,
                   countdown_vars>>

\* mutant of ClearedLaps: lap_list_widget.clear() is left out
ClearedLapsKept == lap_list_widget

\* lap_list_widget.clear()
ClearedLaps == <<>>

\* reset_stopwatch
reset_stopwatch ==
    /\ Alive
    /\ last' = [op |-> "reset_stopwatch", running |-> stopwatch_timer,
                elapsed_ms |-> stopwatch_elapsed_ms, laps |-> Len(lap_list_widget)]
    /\ stopwatch_timer' = FALSE                                    \* stop_stopwatch()
    /\ stopwatch_buttons' = StoppedButtons
    /\ stopwatch_elapsed_ms' = 0
    /\ lap_count' = 0
    /\ lap_list_widget' = ClearedLaps
    /\ stopwatch_display' = update_stopwatch_display(stopwatch_elapsed_ms')
    /\ UNCHANGED <<lifecycle_vars, crashed, modal, pinned_vars, alarm_vars,
                   countdown_vars>>

\* mutant of InsertLap: the entry is added at the end
InsertLapAtEnd(items, item) == Append(items, item)

\* lap_list_widget.insertItem(0, item)
InsertLap(items, item) == <<item>> \o items

\* record_lap; an entry [number, time] is the text f"Lap {number}: {time}"
record_lap ==
    /\ Alive
    /\ lap_count < MaxLaps
    /\ last' = [op |-> "record_lap", running |-> stopwatch_timer]
    /\ lap_count' = lap_count + 1
    /\ lap_list_widget' =
           InsertLap(lap_list_widget, [number |-> lap_count', time |-> stopwatch_display])
    /\ UNCHANGED <<stopwatch_elapsed_ms, stopwatch_timer, stopwatch_display,
                   stopwatch_buttons, lifecycle_vars, crashed, modal, pinned_vars,
                   alarm_vars, countdown_vars>>

\* elapsed times from which the stopwatch is watched: the start, and 10 ms
\* before the first full second, the first full minute, 2:05.040 and the
\* hundredth minute
ElapsedSamples == {0, 990, 59990, 125030, 5999990}

\* the stopwatch counts without end; its ticks are followed for
\* MaxStopwatchTicks ticks from each of the sampled elapsed times
TickFollowed(elapsed_ms) ==
    \E from \in ElapsedSamples :
        /\ from <= elapsed_ms
        /\ elapsed_ms < from + MaxStopwatchTicks * StopwatchTickMs

\* update_stopwatch
update_stopwatch ==
    /\ Alive
    /\ TickFollowed(stopwatch_elapsed_ms)
    /\ last' = [op |-> "update_stopwatch"]
    /\ stopwatch_elapsed_ms' = stopwatch_elapsed_ms + StopwatchTickMs
    /\ stopwatch_display' = update_stopwatch_display(stopwatch_elapsed_ms')
    /\ UNCHANGED <<lap_count, stopwatch_timer, lap_list_widget, stopwatch_buttons,
                   lifecycle_vars, crashed, modal, pinned_vars, alarm_vars,
                   countdown_vars>>

(***************************************************************************)
(* The state after MidnightClock() and clock.show().                       *)
(***************************************************************************)
init_ui ==
    /\ config_file \in StartupFiles
    \* self.config = self.load_config(); update_pinned_clocks_display() then
    \* reads self.config["pinned_timezones"], which raises in __init__ when
    \* the document holds no such array
    /\ config = load_config(config_file).pinned_timezones
    /\ crashed = (load_config(config_file).kind = "other")
    /\ pinned_clocks = (IF crashed THEN <<>> ELSE update_pinned_clocks_display(config))
    /\ roundtrip = [stage |-> "none", tz |-> "", before |-> <<>>]
    /\ is_quitting = FALSE
    /\ window_visible = ~crashed
    /\ tray_icon_visible = FALSE
    /\ modal = <<>>
    /\ wall_clock \in ClockTimes
    /\ alarms = <<>>
    /\ active_alarms_list = <<>>
    /\ alarm_fired = <<>>
    /\ timer_total_seconds = 10 * 60
    /\ is_timer_running = FALSE
    /\ countdown_timer = FALSE
    /\ timer_time_edit = [time |-> QTime(0, 10, 0), enabled |-> TRUE]
    /\ timer_display = "00:10:00"
    /\ timer_start_button = [text |-> "Start", enabled |-> TRUE]
    /\ timer_pause_button = FALSE
    /\ run = NoRun
    /\ last = [op |-> "__init__"]

\* init_stopwatch_ui
init_stopwatch_ui ==
    /\ stopwatch_elapsed_ms = 0
    /\ lap_count = 0
    /\ stopwatch_timer = FALSE
    /\ stopwatch_display = "00:00.000"
    /\ lap_list_widget = <<>>
    /\ stopwatch_buttons = [start |-> TRUE, stop |-> FALSE, lap |-> FALSE]

Init == init_ui /\ init_stopwatch_ui

(***************************************************************************)
(* What the user and the timers can make happen.                           *)
(***************************************************************************)
\* double-click on an entry of the timezone list
pin_clicked == \E tz_name \in Timezones, written \in BOOLEAN : pin_timezone(tz_name, written)

\* a row's Unpin button
unpin_clicked == \E tz_name \in Timezones, written \in BOOLEAN : unpin_timezone(tz_name, written)

\* "Set Alarm"
set_alarm_clicked == \E time \in ClockTimes, text \in AlarmMessages : add_alarm(time, text)

\* the tray icon is clicked
tray_icon_activated == \E reason \in ActivationReasons : on_tray_icon_activated(reason)

\* the user edits the countdown's duration (the edit is enabled)
timer_time_edited ==
    /\ UserCanUse
    /\ timer_time_edit.enabled
    /\ \E time \in TimerTimes : timeChanged(time)

timer_start_clicked == UserCanUse /\ timer_start_button.enabled /\ start_timer
timer_pause_clicked == UserCanUse /\ timer_pause_button /\ pause_timer
timer_reset_clicked == UserCanUse /\ reset_timer
\* countdown_timer's timeout, every second while it is active
countdown_timeout == countdown_timer /\ update_countdown

stopwatch_start_clicked == UserCanUse /\ stopwatch_buttons.start /\ start_stopwatch
stopwatch_stop_clicked == UserCanUse /\ stopwatch_buttons.stop /\ stop_stopwatch
stopwatch_reset_clicked == UserCanUse /\ reset_stopwatch
stopwatch_lap_clicked == UserCanUse /\ stopwatch_buttons.lap /\ record_lap
\* stopwatch_timer's timeout, every 10 ms while it is active
stopwatch_timeout == stopwatch_timer /\ update_stopwatch

NextLifecycle == closeEvent \/ tray_icon_activated \/ force_quit
NextPinned == pin_clicked \/ unpin_clicked
NextAlarm == set_alarm_clicked \/ check_alarms \/ dismiss_message_box \/ wall_clock_moves
NextCountdown ==
    \/ timer_time_edited
    \/ timer_start_clicked
    \/ timer_pause_clicked
    \/ timer_reset_clicked
    \/ countdown_timeout
    \/ dismiss_message_box
NextStopwatch ==
    \/ stopwatch_start_clicked
    \/ stopwatch_stop_clicked
    \/ stopwatch_reset_clicked
    \/ stopwatch_lap_clicked
    \/ stopwatch_timeout

\* the program
Next == NextLifecycle \/ NextPinned \/ NextAlarm \/ NextCountdown \/ NextStopwatch
Spec == Init /\ [][Next]_vars

\* the parts of the program.  Each part's handlers write only that part's
\* variables, apart from the window's visibility and the open message boxes,
\* so a part's behaviours are those of the program with the rest left alone.
\* What a part does not read is fixed at startup: the wall clock outside the
\* alarm registry, the config file outside the pinned-timezone store.
StartOfDay == [hour |-> 7, minute |-> 29]
InitPinned == Init /\ wall_clock = StartOfDay
InitAlarm == Init /\ config_file = FileAbsent
InitOther == Init /\ config_file = FileAbsent /\ wall_clock = StartOfDay

SpecPinned == InitPinned /\ [][NextPinned]_vars
SpecAlarm == InitAlarm /\ [][NextAlarm \/ NextLifecycle]_vars
SpecCountdown == InitOther /\ [][NextCountdown]_vars
SpecStopwatch == InitOther /\ [][NextStopwatch]_vars

\* the stopwatch started after startup, stopped when it had counted
\* elapsed_ms, no lap taken
StoppedAt(elapsed_ms) ==
    /\ stopwatch_elapsed_ms = elapsed_ms
    /\ lap_count = 0
    /\ stopwatch_timer = FALSE
    /\ stopwatch_display = update_stopwatch_display(elapsed_ms)
    /\ lap_list_widget = <<>>
    /\ stopwatch_buttons = [start |-> TRUE, stop |-> FALSE, lap |-> FALSE]

\* the stopwatch followed from each of the sampled elapsed times
InitStopped ==
    /\ init_ui
    /\ config_file = FileAbsent
    /\ wall_clock = StartOfDay
    /\ \E elapsed_ms \in ElapsedSamples : StoppedAt(elapsed_ms)
SpecStopwatchLong == InitStopped /\ [][NextStopwatch]_vars

(***************************************************************************)
(* The window closed to the tray and restored while a feature is in use.   *)
(* The alarms, the countdown and the stopwatch share no state but the      *)
(* window and the message boxes, so one of them is in use at a time while  *)
(* the other two are as they were at startup.                              *)
(***************************************************************************)
AlarmsIdle == alarms = <<>>
CountdownIdle ==
    /\ ~is_timer_running
    /\ timer_total_seconds = TimerSeconds(timer_time_edit.time)
StopwatchIdle == ~stopwatch_timer /\ stopwatch_elapsed_ms = 0

AlarmsInUse == CountdownIdle /\ StopwatchIdle
CountdownInUse == AlarmsIdle /\ StopwatchIdle
StopwatchInUse == AlarmsIdle /\ CountdownIdle

tray_set_alarm_clicked == AlarmsInUse /\ set_alarm_clicked
tray_check_alarms == AlarmsInUse /\ check_alarms
tray_alarm_dismissed == AlarmsInUse /\ dismiss_message_box
tray_wall_clock_moves == AlarmsInUse /\ wall_clock_moves
tray_timer_start_clicked == CountdownInUse /\ timer_start_clicked
tray_timer_pause_clicked == CountdownInUse /\ timer_pause_clicked
tray_timer_reset_clicked == CountdownInUse /\ timer_reset_clicked
tray_countdown_timeout == CountdownInUse /\ countdown_timeout
tray_timer_dismissed == CountdownInUse /\ ~CountdownIdle /\ dismiss_message_box
tray_stopwatch_start_clicked == StopwatchInUse /\ stopwatch_start_clicked
tray_stopwatch_stop_clicked == StopwatchInUse /\ stopwatch_stop_clicked
tray_stopwatch_reset_clicked == StopwatchInUse /\ stopwatch_reset_clicked
tray_stopwatch_timeout == StopwatchInUse /\ stopwatch_timeout
NextTray ==
    \/ NextLifecycle
    \/ tray_set_alarm_clicked
    \/ tray_check_alarms
    \/ tray_alarm_dismissed
    \/ tray_wall_clock_moves
    \/ tray_timer_start_clicked
    \/ tray_timer_pause_clicked
    \/ tray_timer_reset_clicked
    \/ tray_countdown_timeout
    \/ tray_timer_dismissed
    \/ tray_stopwatch_start_clicked
    \/ tray_stopwatch_stop_clicked
    \/ tray_stopwatch_reset_clicked
    \/ tray_stopwatch_timeout
SpecTray == InitAlarm /\ [][NextTray]_vars

\* the countdown's handlers called in any order (configure, start, pause,
\* reset, tick), whatever the widgets' enabled state; the durations given
\* are below one hour.  A call is made when the one before it has returned,
\* so none is made while update_countdown waits in its message box.
CallTimes == {time \in TimerTimes : time.hour = 0}
configure_called == modal = <<>> /\ \E time \in CallTimes : timeChanged(time)
start_called == modal = <<>> /\ start_timer
pause_called == modal = <<>> /\ pause_timer
reset_called == modal = <<>> /\ reset_timer
tick_called == modal = <<>> /\ update_countdown
NextCountdownCalls ==
    \/ configure_called
    \/ start_called
    \/ pause_called
    \/ reset_called
    \/ tick_called
    \/ dismiss_message_box
SpecCountdownCalls == InitOther /\ [][NextCountdownCalls]_vars


(***************************************************************************)
(* Properties.                                                             *)
(***************************************************************************)
\* a duration in whole seconds, as the specification counts it
Duration(time) == 3600 * time.hour + 60 * time.minute + time.second

\* C1 as stated: for every duration d >= 0, configuring a countdown that is
\* not running sets remaining = d, and start() followed by exactly d ticks
\* ends with remaining = 0, not running, and exactly one TimerExpired.
C1_EveryDurationExpiresOnce ==
    /\ run.phase = "configured" => timer_total_seconds = Duration(run.time)
    /\ (run.phase = "started" /\ run.ticks = Duration(run.time)) =>
           /\ timer_total_seconds = 0
           /\ ~is_timer_running
           /\ run.events = 1

\* C1 amended: the same for every d >= 1, with no TimerExpired before the
\* d-th tick; for d = 0 start() does nothing and no TimerExpired is emitted.
C1_PositiveDurationExpiresOnce ==
    /\ run.phase = "configured" => timer_total_seconds = Duration(run.time)
    /\ (run.phase = "started" /\ run.ticks < Duration(run.time)) =>
           /\ timer_total_seconds = Duration(run.time) - run.ticks
           /\ is_timer_running
           /\ run.events = 0
    /\ (run.phase = "started" /\ run.ticks = Duration(run.time)
            /\ Duration(run.time) >= 1) =>
           /\ timer_total_seconds = 0
           /\ ~is_timer_running
           /\ run.events = 1
    /\ (run.phase = "started" /\ Duration(run.time) = 0) =>
           /\ timer_total_seconds = 0
           /\ ~is_timer_running
           /\ run.events = 0

\* a countdown of more than a minute was configured, started and ticked to
\* its end
C1_Witness ==
    /\ run.phase = "started"
    /\ Duration(run.time) > 60
    /\ run.ticks = Duration(run.time)

\* C2: over any run (ticks at any wall-clock time, repeated in one minute,
\* after the clock was set back, or arriving while an alarm's box is still
\* open) each alarm raises its notification at most once, and an alarm that
\* is inactive stays inactive.
C2_AlarmFiresAtMostOnce ==
    [][ /\ \A i \in 1..Len(alarms') : alarm_fired'[i] <= 1
        /\ \A i \in 1..Len(alarms) : ~alarms[i].active => ~alarms'[i].active ]_vars

\* a tick arrived at the minute of an alarm that had already fired, while a
\* message box was still open, and fired nothing
C2_Witness ==
    /\ last.op = "check_alarms"
    /\ last.fired = 0
    /\ modal # <<>>
    /\ \E i \in 1..Len(alarms) :
           /\ alarms[i].time = last.current_time
           /\ ~alarms[i].active
           /\ alarm_fired[i] = 1

\* C3 as stated: for every timezone tz and every pinned list L, pin(tz) and
\* then unpin(tz) leaves the list equal to L.
C3_PinUnpinRestores ==
    roundtrip.stage = "unpinned" => config = roundtrip.before

\* C3 amended: for every tz that is not in L, pin(tz) and then unpin(tz)
\* leaves the list equal to L, same elements in the same order.
C3_PinUnpinRestoresWhenAbsent ==
    (roundtrip.stage = "unpinned" /\ ~In(roundtrip.tz, roundtrip.before)) =>
        config = roundtrip.before

\* a timezone was pinned to a list of two or more others and then unpinned
C3_Witness ==
    /\ roundtrip.stage = "unpinned"
    /\ ~In(roundtrip.tz, roundtrip.before)
    /\ Len(roundtrip.before) >= 2

\* the step raises the "Time's up!" box: TimerExpired
TimerExpired == Len(modal') = Len(modal) + 1 /\ modal'[Len(modal')].kind = "timer"

\* C4: a tick changes the countdown only while it is running and then takes
\* exactly 1 from remaining; TimerExpired is emitted exactly on the tick that
\* takes remaining from 1 to 0, which also sets running to false and stops
\* the tick source; remaining changes otherwise only by configure and reset,
\* and running becomes true only by start, so no TimerExpired follows until
\* the countdown has been started again.
C4_TickDecrementsAndExpiresOnce ==
    [][ /\ last'.op = "update_countdown" =>
              IF is_timer_running
              THEN /\ timer_total_seconds' = timer_total_seconds - 1
                   /\ TimerExpired <=> timer_total_seconds = 1
                   /\ is_timer_running' <=> timer_total_seconds > 1
                   /\ countdown_timer' <=> timer_total_seconds > 1
              ELSE UNCHANGED <<timer_total_seconds, is_timer_running, countdown_timer,
                               timer_display, modal>>
        /\ TimerExpired => last'.op = "update_countdown" /\ is_timer_running
        /\ (~is_timer_running /\ is_timer_running') => last'.op = "start_timer" ]_vars

\* a tick has just taken remaining to 0 and raised the box
C4_Witness ==
    /\ last.op = "update_countdown"
    /\ last.running
    /\ timer_total_seconds = 0
    /\ modal # <<>>

\* C5: configure(duration) while the countdown is running changes neither
\* remaining nor running nor the countdown display, whatever the duration;
\* while it is not running it sets remaining = duration.
C5_ConfigureWhileRunningIsNoOp ==
    [][ last'.op = "sync_timer_display" =>
            IF is_timer_running
            THEN UNCHANGED <<timer_total_seconds, is_timer_running, timer_display>>
            ELSE /\ timer_total_seconds' = Duration(last'.time)
                 /\ ~is_timer_running' ]_vars

\* configure was called on a running countdown with a duration other than
\* what remains
C5_Witness ==
    /\ last.op = "sync_timer_display"
    /\ last.running
    /\ is_timer_running
    /\ Duration(last.time) # timer_total_seconds

\* handlers run on a timer's timeout
TickOps == {"check_alarms", "update_countdown", "update_stopwatch"}

\* C6 as stated: after the tray menu's Quit the process terminates, so no
\* alarm, countdown or stopwatch tick is processed afterwards.
C6_NoTickAfterQuit ==
    [][ is_quitting => last'.op \notin TickOps ]_vars

\* no entry occurs twice
NoDuplicates(list) == \A j, k \in 1..Len(list) : list[j] = list[k] => j = k

\* C7 as stated: in every reachable state, from whatever list load()
\* produced at startup and after any pin/unpin, the pinned list holds no
\* identifier twice.
C7_PinnedListHasNoDuplicates == NoDuplicates(config)

\* C8 as stated: an alarm is deactivated (and its notification raised) only
\* at a moment when the wall clock's (hour, minute) equals the alarm's time,
\* also when the tick that does it was suspended in an earlier alarm's box.
C8_FiresOnlyAtItsMinute ==
    [][ \A i \in 1..Len(alarms) :
            (alarms[i].active /\ ~alarms'[i].active) => alarms[i].time = wall_clock ]_vars

\* C9: after reset_stopwatch, from any prior state, the stopwatch is stopped,
\* elapsed_ms is 0, the display shows 00:00.000 and there are no laps.
C9_ResetClearsStopwatch ==
    last.op = "reset_stopwatch" =>
        /\ ~stopwatch_timer
        /\ stopwatch_elapsed_ms = 0
        /\ stopwatch_display = "00:00.000"
        /\ lap_list_widget = <<>>

\* reset was pressed on a running stopwatch that had counted and held laps
C9_Witness ==
    /\ last.op = "reset_stopwatch"
    /\ last.running
    /\ last.elapsed_ms > 0
    /\ last.laps >= 2

\* C10: the lap list holds exactly lap_count entries, numbered lap_count,
\* lap_count - 1, ..., 1 from index 0 on; so the first lap after startup or
\* a reset is numbered 1.
C10_LapsNewestFirst ==
    /\ Len(lap_list_widget) = lap_count
    /\ \A k \in 1..Len(lap_list_widget) :
           lap_list_widget[k].number = lap_count - k + 1

\* three laps were recorded
C10_Witness ==
    /\ last.op = "record_lap"
    /\ lap_count = 3
    /\ Len(lap_list_widget) = 3

\* C11: started with the config file missing or not parseable as JSON,
\* load_config returns exactly the default list Europe/London,
\* America/New_York, Asia/Tokyo, in that order, and raises nothing.
C11_LoadFallsBackToDefault ==
    (last.op = "__init__" /\ config_file.kind \in {"absent", "malformed"}) =>
        /\ config = <<"Europe/London", "America/New_York", "Asia/Tokyo">>
        /\ pinned_clocks = config
        /\ ~crashed

\* the program has just started on a file that is not parseable as JSON
C11_Witness ==
    /\ last.op = "__init__"
    /\ config_file = FileMalformed
    /\ Len(config) = 3

\* C12: after reset_timer, whatever the countdown was doing before (idle,
\* running, paused, or expired with nothing remaining), it is not running,
\* its one-second timer is stopped, and remaining is the duration held by
\* the duration input, shown as HH:mm:ss, not what remained before.
C12_ResetReloadsConfiguredDuration ==
    last.op = "reset_timer" =>
        /\ ~is_timer_running
        /\ ~countdown_timer
        /\ timer_total_seconds = Duration(timer_time_edit.time)
        /\ timer_display = toString_HHmmss(timer_time_edit.time)

\* reset was called on a running countdown whose remaining time differed
\* from the duration input
C12_Witness ==
    /\ last.op = "reset_timer"
    /\ last.running
    /\ last.seconds # Duration(timer_time_edit.time)
    /\ last.seconds # 0

\* reset was called on a countdown that had expired
C12_WitnessExpired ==
    /\ last.op = "reset_timer"
    /\ ~last.running
    /\ last.seconds = 0
    /\ Duration(timer_time_edit.time) > 0

\* C13: pause_timer on a running countdown stops it (flag and one-second
\* timer) with remaining unchanged; as long as it is paused, ticks and
\* further pause calls included, remaining stays what it was at the pause;
\* and the start_timer that follows sets it running again with remaining
\* still that value, not the duration input's.
C13_PauseKeepsRemaining ==
    /\ run.phase = "paused" =>
           /\ ~is_timer_running
           /\ ~countdown_timer
           /\ timer_total_seconds = run.remaining
    /\ run.phase = "resumed" =>
           /\ is_timer_running
           /\ countdown_timer
           /\ timer_total_seconds = run.remaining

\* a countdown was paused with less remaining than the duration input
\* holds, a tick arrived during the pause, and start_timer resumed it
C13_Witness ==
    /\ run.phase = "resumed"
    /\ run.ticks = 1
    /\ last.op = "start_timer"
    /\ run.remaining < Duration(timer_time_edit.time)

\* C14: the config file is what was on disk at startup (load_config writes
\* nothing) until a pin or unpin changes the list; every pin or unpin that
\* changes the list and whose write succeeds leaves the file's array equal
\* to the list in memory, element for element and in order; a step that
\* leaves the list as it was (a pin of a pinned timezone included) leaves
\* the file as it was, so an absent file stays absent.
C14_FileWrittenExactlyOnChange ==
    /\ config_file \in StartupFiles
    /\ [][ /\ (config' # config /\ ~crashed') =>
                  /\ last'.op \in {"pin_timezone", "unpin_timezone"}
                  /\ config_file' = FileObject(config')
           /\ config' = config => config_file' = config_file ]_vars

\* a timezone was unpinned from a list read from the file at startup, and
\* the shorter list was written
C14_Witness ==
    /\ last.op = "unpin_timezone"
    /\ ~crashed
    /\ Len(config) >= 2
    /\ config_file = FileObject(config)

\* a pinned timezone was pinned again while there was no file on disk
C14_WitnessNoOp ==
    /\ last.op = "pin_timezone"
    /\ In(roundtrip.tz, roundtrip.before)
    /\ config = roundtrip.before
    /\ config_file = FileAbsent

\* C15: a close event before Quit was chosen is refused and only hides the
\* window: the tray icon is shown and the alarms, the countdown and the
\* stopwatch are left as they were, their timers as active as before; a
\* tick that arrives while the window is hidden does what it does otherwise
\* (the first due alarm fires, the running countdown loses a second and
\* expires at 0, the stopwatch counts on); and a left click on the tray icon
\* makes the window visible again.
C15_CloseOnlyHides ==
    [][ wall_clock' = wall_clock =>
        /\ (last'.op = "closeEvent" /\ ~is_quitting) =>
               /\ ~window_visible'
               /\ tray_icon_visible'
               /\ ~crashed'
               /\ UNCHANGED <<alarm_vars, countdown_vars, stopwatch_vars, modal>>
        /\ (last'.op = "check_alarms" /\ ~window_visible) =>
               \A i \in 1..Len(alarms) :
                   i = FirstDue(alarms, wall_clock, 1) =>
                       /\ ~alarms'[i].active
                       /\ alarm_fired'[i] = alarm_fired[i] + 1
                       /\ modal'[Len(modal')] = AlarmFrame(i, wall_clock)
        /\ (last'.op = "update_countdown" /\ ~window_visible /\ is_timer_running) =>
               /\ timer_total_seconds' = timer_total_seconds - 1
               /\ timer_total_seconds = 1 => TimerExpired
        /\ (last'.op = "update_stopwatch" /\ ~window_visible) =>
               stopwatch_elapsed_ms' = stopwatch_elapsed_ms + StopwatchTickMs
        /\ (last'.op = "on_tray_icon_activated" /\ last'.reason = "Trigger") =>
               window_visible' ]_vars

\* an alarm has just fired while the window was hidden in the tray
C15_Witness ==
    /\ last.op = "check_alarms"
    /\ last.hidden
    /\ last.fired > 0
    /\ tray_icon_visible
    /\ ~is_quitting

\* a countdown has just expired while the window was hidden in the tray
C15_WitnessCountdown ==
    /\ last.op = "update_countdown"
    /\ last.hidden
    /\ last.running
    /\ timer_total_seconds = 0
    /\ ~is_quitting

\* MM:SS.mmm as the specification defines it, digit by digit: the minutes
\* e div 60000 in two digits, or as many as they need from 100 on; the
\* seconds (e mod 60000) div 1000 in two digits; e mod 1000 in three
fmt(e) ==
    LET m == e \div 60000
        s == (e % 60000) \div 1000
        ms == e % 1000
        MM == IF m < 100
              THEN Digit[(m \div 10) + 1] \o Digit[(m % 10) + 1]
              ELSE IntStr(m)
        SS == Digit[(s \div 10) + 1] \o Digit[(s % 10) + 1]
        mmm == Digit[(ms \div 100) + 1] \o Digit[((ms \div 10) % 10) + 1]
                   \o Digit[(ms % 10) + 1]
    IN  MM \o ":" \o SS \o "." \o mmm

\* C16: the stopwatch display is fmt(elapsed_ms) in every reachable state,
\* before and beyond a full second, a full minute and 99 minutes; the
\* display text for 125034 ms is "02:05.034"; and the entry a lap adds at
\* the head of the lap list carries fmt of elapsed_ms as it stood when
\* record_lap was called.
C16_DisplayIsFormattedElapsed ==
    /\ update_stopwatch_display(125034) = "02:05.034"
    /\ fmt(125034) = "02:05.034"
    /\ [](stopwatch_display = fmt(stopwatch_elapsed_ms))
    /\ [][ lap_count' = lap_count + 1 =>
               lap_list_widget'[1].time = fmt(stopwatch_elapsed_ms) ]_vars

\* a lap was recorded 10 ms after the hundredth minute
C16_Witness ==
    /\ last.op = "record_lap"
    /\ stopwatch_elapsed_ms = 6000010
    /\ lap_list_widget[1].time = "100:00.010"
    /\ stopwatch_display = "100:00.010"

\* C17: in every reachable state the lap and stop buttons are enabled
\* exactly when the stopwatch timer is active and the start button exactly
\* when it is not; so whatever the user does, a step that adds a lap entry
\* or increments lap_count is taken with the stopwatch running.
C17_LapOnlyWhileRunning ==
    /\ [](/\ stopwatch_buttons.lap = stopwatch_timer
          /\ stopwatch_buttons.stop = stopwatch_timer
          /\ stopwatch_buttons.start = ~stopwatch_timer)
    /\ [][ (lap_count' > lap_count \/ Len(lap_list_widget') > Len(lap_list_widget)) =>
               /\ stopwatch_timer
               /\ stopwatch_timer' ]_vars

\* the stopwatch was stopped after it had counted and a lap was taken
C17_Witness ==
    /\ last.op = "stop_stopwatch"
    /\ ~stopwatch_timer
    /\ lap_count >= 1
    /\ stopwatch_elapsed_ms > 0

\* C18 as stated: whatever the config file holds at startup (nothing, text
\* that is not JSON, or JSON that is not an object with a pinned_timezones
\* array), startup completes without an uncaught error, with the pinned
\* rows showing a usable list.
C18_StartupNeverFails ==
    last.op = "__init__" =>
        /\ ~crashed
        /\ window_visible
        /\ pinned_clocks = config

\* C19 as stated: once the "Time's up!" box of an expired countdown is
\* closed, the countdown is not running and takes what an idle countdown
\* takes: the duration input and the Start button are enabled again, so a
\* new duration can be set and started without Reset.
C19_ExpiredIsIdle ==
    (last.op = "update_countdown resumed" /\ modal = <<>>) =>
        /\ ~is_timer_running
        /\ timer_time_edit.enabled
        /\ timer_start_button.enabled

\* C20: in every reachable state remaining is at least 0; a running
\* countdown has more than 0 remaining, so start_timer with nothing
\* remaining leaves it not running; and the one-second countdown timer is
\* active exactly when the countdown is running.
C20_CountdownInvariant ==
    /\ timer_total_seconds >= 0
    /\ is_timer_running => timer_total_seconds > 0
    /\ countdown_timer <=> is_timer_running
    /\ (last.op = "start_timer" /\ ~last.started) =>
           (timer_total_seconds = 0 \/ is_timer_running)

\* start_timer was called with nothing remaining and did not start
C20_Witness ==
    /\ last.op = "start_timer"
    /\ ~last.started
    /\ timer_total_seconds = 0
    /\ ~is_timer_running
    /\ ~countdown_timer

\* C21 as stated: when the write of the config file fails during
\* pin_timezone or unpin_timezone, the exception leaves the handler and the
\* call has had no effect: the list in memory is still what the pinned rows
\* show, as it was before the call.
C21_FailedWriteHasNoEffect ==
    (crashed /\ last.op \in {"pin_timezone", "unpin_timezone"}) =>
        config = pinned_clocks

\* alarm i's "Alarm" box is open
BoxOpen(i) == \E k \in 1..Len(modal) : modal[k].kind = "alarm" /\ modal[k].i = i

\* C22 as stated: the alarm list and its rows are index-aligned, and in
\* every reachable state row i carries "(Triggered)" exactly once if alarm
\* i has fired and not at all if it has not.
C22_RowMarkedIffFired ==
    /\ Len(active_alarms_list) = Len(alarms)
    /\ \A i \in 1..Len(alarms) :
           active_alarms_list[i].triggered = (IF alarm_fired[i] >= 1 THEN 1 ELSE 0)

\* C22 amended: add_alarm appends one active alarm and one unmarked row at
\* the same index; no alarm or row is removed, reordered or rewritten; and
\* in every reachable state row i carries "(Triggered)" exactly once if
\* alarm i has fired and its "Alarm" box has been closed, and not at all
\* otherwise, also when several alarms fire in one minute through ticks
\* that arrive while a box is open.
C22_RowMarkedOnceBoxClosed ==
    /\ [](/\ Len(active_alarms_list) = Len(alarms)
          /\ \A i \in 1..Len(alarms) :
                 /\ active_alarms_list[i].triggered =
                        (IF alarm_fired[i] >= 1 /\ ~BoxOpen(i) THEN 1 ELSE 0)
                 /\ active_alarms_list[i].gray = (active_alarms_list[i].triggered = 1)
                 /\ active_alarms_list[i].label =
                        toString_HHmm(alarms[i].time) \o " - " \o alarms[i].message
                 /\ alarms[i].active <=> alarm_fired[i] = 0)
    /\ [][ /\ Len(alarms') >= Len(alarms)
           /\ \A i \in 1..Len(alarms) :
                  /\ alarms'[i].time = alarms[i].time
                  /\ alarms'[i].message = alarms[i].message
                  /\ active_alarms_list'[i].label = active_alarms_list[i].label
           /\ Len(alarms') > Len(alarms) =>
                  /\ last'.op = "add_alarm"
                  /\ Len(alarms') = Len(alarms) + 1
                  /\ alarms'[Len(alarms')].active
                  /\ active_alarms_list'[Len(alarms')].triggered = 0 ]_vars

\* two alarms set for the same minute have both fired, the second while
\* the first one's box was open or after it, and both boxes are closed
C22_Witness ==
    /\ Len(alarms) = 2
    /\ alarms[1].time = alarms[2].time
    /\ alarm_fired = <<1, 1>>
    /\ active_alarms_list[1].triggered = 1
    /\ active_alarms_list[2].triggered = 1
    /\ modal = <<>>

\* two alarms set for the same minute have both fired and both boxes are
\* open: the second fired on a tick that arrived inside the first one's box
C22_WitnessReentrant ==
    /\ Len(alarms) = 2
    /\ alarms[1].time = alarms[2].time
    /\ alarm_fired = <<1, 1>>
    /\ Len(modal) = 2

====
